---------------------------- MODULE Spec2Model ----------------------------
(***************************************************************************)
(* UAP-51: the flight control and combat simulation loop of GameEngine.js  *)
(* with its three PIDControllers, driven by the commands of Game.jsx and   *)
(* the menu.                                                               *)
(*                                                                         *)
(* Numbers are fixed point.  Lengths, shields and boost are in hundredths  *)
(* (U per unit), times in milliseconds, velocities in hundredths per       *)
(* second, forces in hundredths per second squared, PID gains in tenths    *)
(* (G per unit), unit vectors in ten-thousandths (D per unit), angles in   *)
(* milliradians and sines in thousandths (K per unit).  Every quotient     *)
(* truncates toward zero.                                                  *)
(***************************************************************************)
EXTENDS Integers, Sequences, FiniteSets, TLC

U == 10 * 10
G == 2 * 5
D == 100 * 100
K == 10 * 100

---------------------------------------------------------------------------
(* Arithmetic: Math.max, Math.min, division, Math.sqrt, Math.sin, Math.cos *)

Max(a, b) == IF a >= b THEN a ELSE b
Min(a, b) == IF a <= b THEN a ELSE b
Abs(a) == IF a >= 0 THEN a ELSE -a

\* a / b for b > 0, truncated toward zero
Quot(a, b) == IF a >= 0 THEN a \div b ELSE -((-a) \div b)

\* the largest r + d * w with 0 <= d <= 15 whose square is at most n
SqrtDigit(n, r, w) ==
  r + w * Cardinality({d \in 1..15 : r + d * w <= 46340 /\ (r + d * w) * (r + d * w) <= n})

\* Math.sqrt: the floor of the square root of n, 0 <= n < 2^31, one
\* hexadecimal digit at a time
ISqrt(n) == SqrtDigit(n, SqrtDigit(n, SqrtDigit(n, SqrtDigit(n, 0, 4096), 256), 16), 1)

PiMilli == 3142

\* sin on [0, pi], argument in milliradians, value in thousandths
\* (Bhaskara's rational approximation, error below 0.002)
SinHalf(t) ==
  LET p == (t * (PiMilli - t)) \div K
  IN (16 * K * p) \div (49348 - 4 * p)

Sin(a) ==
  LET m == a % (2 * PiMilli)
  IN IF m <= PiMilli THEN SinHalf(m) ELSE -SinHalf(m - PiMilli)

Cos(a) == Sin(a + PiMilli \div 2)

\* The two values of a Number that are not finite numbers, as the division by
\* a dt of 0 gives them: x / 0 is Infinity with the sign of x, and 0 / 0 is NaN.
\* Both lie outside the range of every finite quantity of the model.
Infinity == 2 ^ 29
NaN == 2 ^ 30

IsFinite(x) == x \notin {NaN, Infinity, -Infinity}

---------------------------------------------------------------------------
(* THREE.Vector3 *)

Vec(x, y, z) == [x |-> x, y |-> y, z |-> z]
VAdd(a, b) == Vec(a.x + b.x, a.y + b.y, a.z + b.z)
VSub(a, b) == Vec(a.x - b.x, a.y - b.y, a.z - b.z)
\* v * (n / d)
VScale(v, n, d) == Vec(Quot(v.x * n, d), Quot(v.y * n, d), Quot(v.z * n, d))
VLength(v) == ISqrt(v.x * v.x + v.y * v.y + v.z * v.z)
\* a vector whose components are all numbers
VFinite(v) == IsFinite(v.x) /\ IsFinite(v.y) /\ IsFinite(v.z)
\* distanceTo(): not a number when a component is not, so that no test
\* 'distance < r' holds of it
VDistance(a, b) == IF VFinite(a) /\ VFinite(b) THEN VLength(VSub(a, b)) ELSE NaN
\* normalize(): divideScalar(length() || 1); the result is in units of 1/D
VNormalize(v) ==
  LET len == VLength(v)
  IN IF len = 0 THEN Vec(0, 0, 0) ELSE VScale(v, D, len)

---------------------------------------------------------------------------
(* GAME_CONFIG *)

ALIEN_COUNT == 5
ALIEN_FIRE_RATE_MIN == 2500
ALIEN_FIRE_RATE_MAX == 4500
ALIEN_RANGE == 60 * U
LASER_SPEED == 60
LASER_MAX_DISTANCE == 120 * U
LASER_DAMAGE == 18 * U
UAP_THRUST == 40 * U
UAP_BOOST_THRUST == 100 * U
UAP_BOOST_DRAIN == 30
UAP_BOOST_RECHARGE == 15
UAP_GRAVITY == (-15) * U
UAP_HOVER_FORCE == 14 * U
UAP_DAMPING == 94
SHIELD_MAX == 100 * U
SHIELD_REGEN == 4
WORLD_BOUNDS == [x |-> 60 * U, y |-> [min |-> 1 * U, max |-> 50 * U], z |-> 60 * U]
PID == [X |-> [P |-> 10 * G, I |-> 5, D |-> 5 * G],
        Y |-> [P |-> 12 * G, I |-> 8, D |-> 6 * G],
        Z |-> [P |-> 10 * G, I |-> 5, D |-> 5 * G]]

---------------------------------------------------------------------------
(* PIDController *)

\* constructor(kp, ki, kd, maxOutput = 80)
NewPID(kp, ki, kd) ==
  [kp |-> kp, ki |-> ki, kd |-> kd, maxOutput |-> 80 * U,
   integral |-> 0, prevError |-> 0, lastP |-> 0, lastI |-> 0, lastD |-> 0]

IntegrateUnclamped(c, error, dt) == c.integral + Quot(error * dt, K)

\* the accumulator of calculate(): clamped to [-15, 15] unit-seconds
Integrate(c, error, dt) ==
  Max(-15 * U, Min(15 * U, c.integral + Quot(error * dt, K)))

\* the error's rate of change per second
Derivative(c, error, dt) ==
  IF dt = 0
  THEN IF error = c.prevError THEN NaN
       ELSE IF error > c.prevError THEN Infinity ELSE -Infinity
  ELSE Quot((error - c.prevError) * K, dt)

\* this.kd * derivative: a gain of 0 times Infinity is NaN
DerivativeTerm(c, derivative) ==
  IF IsFinite(derivative) THEN Quot(c.kd * derivative, G)
  ELSE IF derivative = NaN \/ c.kd = 0 THEN NaN
  ELSE IF c.kd > 0 THEN derivative ELSE -derivative

\* lastP + lastI + lastD, where lastP and lastI are finite
Output(lastP, lastI, lastD) ==
  IF IsFinite(lastD) THEN lastP + lastI + lastD ELSE lastD

\* Math.max(-maxOutput, Math.min(maxOutput, output)): NaN stays NaN
Limit(c, output) ==
  IF output = NaN THEN NaN ELSE Max(-c.maxOutput, Min(c.maxOutput, output))

CalculateUnclamped(c, error, dt) ==
  LET lastP == Quot(c.kp * error, G)
      integral == Integrate(c, error, dt)
      lastI == Quot(c.ki * integral, G)
      lastD == DerivativeTerm(c, Derivative(c, error, dt))
  IN [pid |-> [c EXCEPT !.lastP = lastP, !.integral = integral, !.lastI = lastI,
                        !.lastD = lastD, !.prevError = error],
      out |-> Output(lastP, lastI, lastD)]

\* calculate(error, dt): the controller after the call and the value returned
Calculate(c, error, dt) ==
  LET lastP == Quot(c.kp * error, G)
      integral == Integrate(c, error, dt)
      lastI == Quot(c.ki * integral, G)
      lastD == DerivativeTerm(c, Derivative(c, error, dt))
      output == Output(lastP, lastI, lastD)
  IN [pid |-> [c EXCEPT !.lastP = lastP, !.integral = integral, !.lastI = lastI,
                        !.lastD = lastD, !.prevError = error],
      out |-> Limit(c, output)]

ResetKeepsMemory(c) == [c EXCEPT !.lastP = 0, !.lastI = 0, !.lastD = 0]

\* reset()
Reset(c) ==
  [c EXCEPT !.integral = 0, !.prevError = 0, !.lastP = 0, !.lastI = 0, !.lastD = 0]

---------------------------------------------------------------------------
(* GameEngine: the fields of the engine, of THREE.Clock and of the page *)

VARIABLES
  uapPos,        \* this.uap.position
  uapVelocity,   \* this.uapVelocity
  aliens,        \* this.aliens: position, userData {alive, baseY, lastShot, shotInterval}
  lasers,        \* this.lasers: position, direction, speed, distance, counted
  shields, boost, survivalTime, evadeCount, isBoosting, autopilot,
  gameStarted, gamePaused, gameOver,
  keys,          \* the codes k with this.keys[k] true
  pidX, pidY, pidZ,
  now,           \* performance.now(), ms
  time,          \* this.clock.getElapsedTime(), ms
  frame,         \* animation frames run so far
  op,            \* the handler that ran last
  out,           \* the value the last calculate() of pidX returned
  call,          \* the arguments of the last calculate() of pidX, and whether
                 \* the handler before it reset the controller
  evadeTarget,   \* the target the last calculateEvadeTarget() returned
  patrolling,    \* whether that call took the branch of the patrol movement
  shotAt,        \* performance.now() of each sentry's latest shot in this run, -1 before it
  force,         \* the force the last update() applied
  removed,       \* the lasers the last update() removed, each with its cause
  nextId         \* lasers created so far; a laser's id is its object identity

vars == <<uapPos, uapVelocity, aliens, lasers, shields, boost, survivalTime,
          evadeCount, isBoosting, autopilot, gameStarted, gamePaused, gameOver,
          keys, pidX, pidY, pidZ, now, time, frame, op, out, call, evadeTarget, patrolling,
          shotAt, force,
          removed, nextId>>

\* createLaser(start, target); id, band and credits are history fields:
\* the object's identity, the steps it was seen in the near-miss band and the
\* times it raised evadeCount
CreateLaser(start, target, id) ==
  [pos |-> start, dir |-> VNormalize(VSub(target, start)), speed |-> LASER_SPEED,
   distance |-> 0, counted |-> FALSE, id |-> id, band |-> 0, credits |-> 0]

\* the avoidance vector one threat adds: toUAP.normalize().multiplyScalar(w / (distance + 1))
Avoid(from, pos, radius, weight) ==
  LET toUAP == VSub(pos, from)
      distance == VLength(toUAP)
  IN IF distance < radius
     THEN VScale(VNormalize(toUAP), weight, distance + U)
     ELSE Vec(0, 0, 0)

\* this.lasers.forEach(...): dangerDirection.add(toUAP) for each laser from the
\* i-th on.  In every loop of this module the value an iteration leaves is
\* bound by a singleton set, so that it is computed before the next iteration.
RECURSIVE LaserDanger(_, _, _, _)
LaserDanger(ls, i, pos, danger) ==
  IF i > Len(ls) THEN danger
  ELSE CHOOSE r \in {LaserDanger(ls, i + 1, pos, d) :
                       d \in {VAdd(danger, Avoid(ls[i].pos, pos, 20 * U, 20))}} : TRUE

\* this.aliens.forEach(...): dangerDirection.add(toUAP) for each alive sentry
RECURSIVE AlienDanger(_, _, _, _)
AlienDanger(as, i, pos, danger) ==
  IF i > Len(as) THEN danger
  ELSE CHOOSE r \in {AlienDanger(as, i + 1, pos, d) :
                       d \in {IF as[i].alive
                              THEN VAdd(danger, Avoid(as[i].pos, pos, 15 * U, 10))
                              ELSE danger}} : TRUE

\* dangerDirection after the two forEach loops
Accumulated(pos, ls, as) == AlienDanger(as, 1, pos, LaserDanger(ls, 1, pos, Vec(0, 0, 0)))

\* dangerDirection after multiplyScalar(2), which scales it in place
DangerDirection(pos, ls, as) == VScale(Accumulated(pos, ls, as), 2, 1)

\* if (dangerDirection.length() < 1), read after the scaling
Patrols(pos, ls, as) == VLength(DangerDirection(pos, ls, as)) < 1 * U

\* the patrol offsets of calculateEvadeTarget, t = survivalTime in ms
PatrolX(t) == Quot(Sin(t \div 2) * 10 * U, K)
PatrolZ(t) == Quot(Cos((t * 7) \div 10) * 10 * U, K)
PatrolY(t) == 10 * U + Quot(Sin((t * 3) \div 10) * 5 * U, K)

\* the target clamped before the patrol movement is added
ClampedTarget(pos, danger) ==
  LET target == VAdd(pos, danger)
  IN Vec(Max(-Quot(WORLD_BOUNDS.x * 7, 10), Min(Quot(WORLD_BOUNDS.x * 7, 10), target.x)),
         Max(5 * U, Min(25 * U, target.y + Quot(15 * U - pos.y, 10))),
         Max(-Quot(WORLD_BOUNDS.z * 7, 10), Min(Quot(WORLD_BOUNDS.z * 7, 10), target.z)))

\* calculateEvadeTarget()
CalculateEvadeTarget(pos, ls, as, t) ==
  LET danger == DangerDirection(pos, ls, as)
      target == ClampedTarget(pos, danger)
  IN IF Patrols(pos, ls, as)
     THEN Vec(target.x + PatrolX(t), PatrolY(t), target.z + PatrolZ(t))
     ELSE target

\* update(): the force of manual control
ManualForce(ks, thrust) ==
  Vec((IF "KeyA" \in ks THEN -thrust ELSE 0) + (IF "KeyD" \in ks THEN thrust ELSE 0),
      (IF "Space" \in ks THEN thrust ELSE 0)
        - (IF "ShiftLeft" \in ks \/ "ShiftRight" \in ks THEN thrust \div 2 ELSE 0)
        + UAP_GRAVITY + UAP_HOVER_FORCE,
      (IF "KeyW" \in ks THEN -thrust ELSE 0) + (IF "KeyS" \in ks THEN thrust ELSE 0))

\* update(): apply physics, the velocity after force and damping
Accelerate(vel, f, dt) == VScale(VAdd(vel, VScale(f, dt, K)), UAP_DAMPING, 100)

BoundsCheckNoWalls(p, v) ==
  [pos |-> Vec(p.x, Max(WORLD_BOUNDS.y.min, p.y), p.z), vel |-> v]

\* the components of v on the axes where the force f is a number, and 0 on
\* the others
OnFiniteAxes(v, f) ==
  Vec(IF f.x = NaN THEN 0 ELSE v.x, IF f.y = NaN THEN 0 ELSE v.y,
      IF f.z = NaN THEN 0 ELSE v.z)

\* On an axis where the force is NaN the velocity and the position become NaN:
\* NaN * dt and v + NaN are NaN, the tests 'y < min' and 'y > max' are false of
\* NaN, and Math.max and Math.min of NaN are NaN.
Poison(v, f) ==
  Vec(IF f.x = NaN THEN NaN ELSE v.x, IF f.y = NaN THEN NaN ELSE v.y,
      IF f.z = NaN THEN NaN ELSE v.z)

\* update(): bounds checking of the moved craft
BoundsCheck(p, v) ==
  LET low == p.y < WORLD_BOUNDS.y.min
      y1 == IF low THEN WORLD_BOUNDS.y.min ELSE p.y
      y2 == IF y1 > WORLD_BOUNDS.y.max THEN WORLD_BOUNDS.y.max ELSE y1
  IN [pos |-> Vec(Max(-WORLD_BOUNDS.x, Min(WORLD_BOUNDS.x, p.x)), y2,
                  Max(-WORLD_BOUNDS.z, Min(WORLD_BOUNDS.z, p.z))),
      vel |-> IF low THEN [v EXCEPT !.y = Max(0, v.y)] ELSE v]

\* update(): shield regeneration
Regenerate(s, dt) ==
  IF s < SHIELD_MAX THEN Min(SHIELD_MAX, s + Quot(SHIELD_REGEN * U * dt, K)) ELSE s

---------------------------------------------------------------------------
(* update(): the sentries *)

\* the callback without the test of the time since the last shot
AlienStepNoInterval(acc, i, pos, vel, auto, t, nowMs) ==
  LET a == acc.aliens[i]
      hover == [a.pos EXCEPT !.y = a.baseY + Quot(Sin(2 * t + (i - 1) * K) * U, 2 * K)]
      distance == VDistance(hover, pos)
      aim == IF auto THEN pos ELSE VAdd(pos, VScale(vel, 2, 10))
  IN IF ~a.alive THEN acc
     ELSE IF distance < ALIEN_RANGE
     THEN [aliens |-> [acc.aliens EXCEPT ![i] = [a EXCEPT !.pos = hover, !.lastShot = nowMs]],
           lasers |-> Append(acc.lasers, CreateLaser(hover, aim, acc.nextId)),
           nextId |-> acc.nextId + 1]
     ELSE [acc EXCEPT !.aliens[i].pos = hover]

\* one callback of this.aliens.forEach in update(); index is the array index
AlienStep(acc, i, pos, vel, auto, t, nowMs) ==
  LET a == acc.aliens[i]
      hover == [a.pos EXCEPT !.y = a.baseY + Quot(Sin(2 * t + (i - 1) * K) * U, 2 * K)]
      distance == VDistance(hover, pos)
      fires == distance < ALIEN_RANGE /\ nowMs - a.lastShot > a.shotInterval
      aim == IF auto THEN pos ELSE VAdd(pos, VScale(vel, 2, 10))
  IN IF ~a.alive THEN acc
     ELSE IF fires
     THEN [aliens |-> [acc.aliens EXCEPT ![i] = [a EXCEPT !.pos = hover, !.lastShot = nowMs]],
           lasers |-> Append(acc.lasers, CreateLaser(hover, aim, acc.nextId)),
           nextId |-> acc.nextId + 1]
     ELSE [acc EXCEPT !.aliens[i].pos = hover]

\* this.aliens.forEach(...) of update(), from the i-th sentry on
RECURSIVE AlienLoop(_, _, _, _, _, _, _)
AlienLoop(acc, i, pos, vel, auto, t, nowMs) ==
  IF i > Len(acc.aliens) THEN acc
  ELSE CHOOSE r \in {AlienLoop(a, i + 1, pos, vel, auto, t, nowMs) :
                       a \in {AlienStep(acc, i, pos, vel, auto, t, nowMs)}} : TRUE

---------------------------------------------------------------------------
(* update(): the lasers *)

HitRadius == (18 * U) \div 10
NearRadius == 4 * U

\* a splice that removes the last laser of the list in place of the i-th
SpliceLast(ls, i) == SubSeq(ls, 1, Len(ls) - 1)

\* this.lasers.splice(i, 1)
Splice(ls, i) == SubSeq(ls, 1, i - 1) \o SubSeq(ls, i + 1, Len(ls))

\* laser.distance += speed * dt; laser.mesh.position.add(direction * speed * dt)
Advance(l, dt) ==
  LET step == Quot(l.speed * U * dt, K)
  IN [l EXCEPT !.distance = @ + step, !.pos = VAdd(@, VScale(l.dir, step, D))]

NearMissUncounted(l, d) ==
  IF d < NearRadius /\ d > HitRadius
  THEN [l EXCEPT !.band = @ + 1, !.credits = @ + 1]
  ELSE l

\* the near-miss check of one laser at distance d from the craft
NearMiss(l, d) ==
  IF d < NearRadius /\ d > HitRadius
  THEN IF ~l.counted
       THEN [l EXCEPT !.counted = TRUE, !.band = @ + 1, !.credits = @ + 1]
       ELSE [l EXCEPT !.band = @ + 1]
  ELSE l

HitUnfloored(acc, i, l) ==
  LET s == acc.shields - LASER_DAMAGE
  IN [acc EXCEPT !.shields = s,
                 !.lasers = Splice(@, i),
                 !.gameOver = @ \/ s <= 0,
                 !.removed = Append(@, [laser |-> l, cause |-> "hit", shields |-> s])]

HitKeepsLaser(acc, i, l) ==
  LET s == Max(0, acc.shields - LASER_DAMAGE)
  IN [acc EXCEPT !.shields = s,
                 !.lasers[i] = l,
                 !.gameOver = @ \/ s <= 0,
                 !.removed = Append(@, [laser |-> l, cause |-> "hit", shields |-> s])]

\* the collision branch: damage, splice, endGame() when the shields are gone
Hit(acc, i, l) ==
  LET s == Max(0, acc.shields - LASER_DAMAGE)
  IN [acc EXCEPT !.shields = s,
                 !.lasers = Splice(@, i),
                 !.gameOver = @ \/ s <= 0,
                 !.removed = Append(@, [laser |-> l, cause |-> "hit", shields |-> s])]

\* the iteration without the removal of old lasers
LaserStepKeepsOld(acc, i, pos, dt) ==
  LET l == Advance(acc.lasers[i], dt)
      distanceToUAP == VDistance(l.pos, pos)
      m == NearMiss(l, distanceToUAP)
  IN IF distanceToUAP < HitRadius THEN Hit(acc, i, l)
     ELSE [acc EXCEPT !.evadeCount = @ + (m.credits - l.credits),
                      !.lasers = [@ EXCEPT ![i] = m]]

\* one iteration of the laser loop of update(), for this.lasers[i]
LaserStep(acc, i, pos, dt) ==
  LET l == Advance(acc.lasers[i], dt)
      distanceToUAP == VDistance(l.pos, pos)
      m == NearMiss(l, distanceToUAP)
      old == m.distance > LASER_MAX_DISTANCE \/ m.pos.y < 0
  IN IF distanceToUAP < HitRadius THEN Hit(acc, i, l)
     ELSE [acc EXCEPT
             !.evadeCount = @ + (m.credits - l.credits),
             !.lasers = IF old THEN Splice(@, i) ELSE [@ EXCEPT ![i] = m],
             !.removed = IF old
                         THEN Append(@, [laser |-> m, cause |-> "expired",
                                         shields |-> acc.shields])
                         ELSE @]

\* for (let i = this.lasers.length - 1; i >= 0; i--)
RECURSIVE LaserLoop(_, _, _, _)
LaserLoop(acc, i, pos, dt) ==
  IF i < 1 THEN acc
  ELSE CHOOSE r \in {LaserLoop(a, i - 1, pos, dt) : a \in {LaserStep(acc, i, pos, dt)}} : TRUE

---------------------------------------------------------------------------
(* update(dt, time) *)

\* The statements of update() in program order.  Each intermediate value is
\* bound by \E over a singleton, so that it is computed once, where the
\* program computes it.
Update(dt, t, nowMs) ==
  \E st \in {survivalTime + dt} :
  \E boosting \in {"KeyE" \in keys /\ boost > 0} :
  \E thrust \in {IF boosting THEN UAP_BOOST_THRUST ELSE UAP_THRUST} :
  \E tgt \in {CalculateEvadeTarget(uapPos, lasers, aliens, st)} :
  \E cx \in {Calculate(pidX, tgt.x - uapPos.x, dt)} :
  \E cy \in {Calculate(pidY, tgt.y - uapPos.y, dt)} :
  \E cz \in {Calculate(pidZ, tgt.z - uapPos.z, dt)} :
  \E f \in {IF autopilot THEN Vec(cx.out, cy.out, cz.out) ELSE ManualForce(keys, thrust)} :
  \E vel1 \in {Accelerate(uapVelocity, OnFiniteAxes(f, f), dt)} :
  \E kept \in {BoundsCheck(VAdd(uapPos, VScale(vel1, dt, K)), vel1)} :
  \E moved \in {[pos |-> Poison(kept.pos, f), vel |-> Poison(kept.vel, f)]} :
  \E fired \in {AlienLoop([aliens |-> aliens, lasers |-> lasers, nextId |-> nextId],
                          1, moved.pos, moved.vel, autopilot, t, nowMs)} :
  \E flown \in {LaserLoop([lasers |-> fired.lasers, shields |-> Regenerate(shields, dt),
                           evadeCount |-> evadeCount, gameOver |-> gameOver,
                           removed |-> <<>>],
                          Len(fired.lasers), moved.pos, dt)} :
     /\ survivalTime' = st
     /\ isBoosting' = boosting
     /\ boost' = IF boosting THEN Max(0, boost - Quot(UAP_BOOST_DRAIN * U * dt, K))
                 ELSE IF boost < 100 * U
                 THEN Min(100 * U, boost + Quot(UAP_BOOST_RECHARGE * U * dt, K))
                 ELSE boost
     /\ pidX' = IF autopilot THEN cx.pid ELSE pidX
     /\ pidY' = IF autopilot THEN cy.pid ELSE pidY
     /\ pidZ' = IF autopilot THEN cz.pid ELSE pidZ
     /\ out' = IF autopilot THEN cx.out ELSE out
     /\ call' = IF autopilot
                THEN [error |-> tgt.x - uapPos.x, dt |-> dt,
                      fresh |-> op \in {"toggleAutopilot", "restart"}]
                ELSE call
     /\ evadeTarget' = IF autopilot THEN tgt ELSE evadeTarget
     /\ patrolling' = IF autopilot THEN Patrols(uapPos, lasers, aliens) ELSE patrolling
     /\ shotAt' = [i \in DOMAIN shotAt |->
                     IF i \in DOMAIN aliens /\ fired.aliens[i].lastShot # aliens[i].lastShot
                     THEN nowMs ELSE shotAt[i]]
     /\ force' = f
     /\ uapPos' = moved.pos
     /\ uapVelocity' = moved.vel
     /\ aliens' = fired.aliens
     /\ nextId' = fired.nextId
     /\ lasers' = flown.lasers
     /\ shields' = flown.shields
     /\ evadeCount' = flown.evadeCount
     /\ gameOver' = flown.gameOver
     /\ removed' = flown.removed
     /\ UNCHANGED <<autopilot, gameStarted, gamePaused, keys>>

---------------------------------------------------------------------------
(* Bounds of the model and the inputs it draws *)

\* animation frames of one run
MaxFrames == 2

\* ms between two animation frames: 20 fps and 10 fps or slower
Deltas == {50, 100}

\* the key codes the operator uses, among those update() reads
Keys == {"KeyD"}

\* performance.now() when init() runs
StartTimes == {3000}

\* the values of Math.random() * 2000 that restart() gives the five sentries
Rolls == {<<1999, 400, 800, 1200, 1600>>}

\* the values createAliens() draws for the five sentries: radius, y, lastShot
\* and shotInterval
Rosters ==
  {[i \in 1..ALIEN_COUNT |-> [radius |-> 25 * U, y |-> 3 * U, lastShot |-> 0,
                              shotInterval |-> ALIEN_FIRE_RATE_MIN]],
   [i \in 1..ALIEN_COUNT |-> [radius |-> 25 * U + 3 * U * i, y |-> 3 * U + U * i,
                              lastShot |-> 300 * i,
                              shotInterval |-> ALIEN_FIRE_RATE_MIN + 400 * (i - 1)]]}

---------------------------------------------------------------------------
(* constructor() and init() *)

\* createAliens(): the i-th sentry (array index i - 1) from its random draws
MakeAlien(i, draw) ==
  LET angle == ((i - 1) * 2 * PiMilli) \div ALIEN_COUNT
  IN [pos |-> Vec(Quot(Cos(angle) * draw.radius, K), draw.y,
                  Quot(Sin(angle) * draw.radius, K)),
      alive |-> TRUE, baseY |-> draw.y, lastShot |-> draw.lastShot,
      shotInterval |-> draw.shotInterval]

\* the fields the constructor sets that no scenario of this module varies
Constructed ==
  /\ boost = 100 * U
  /\ isBoosting = FALSE
  /\ gamePaused = FALSE
  /\ gameOver = FALSE
  /\ pidY = NewPID(PID.Y.P, PID.Y.I, PID.Y.D)
  /\ pidZ = NewPID(PID.Z.P, PID.Z.I, PID.Z.D)
  /\ frame = 0
  /\ out = 0
  /\ call = [error |-> 0, dt |-> 0, fresh |-> FALSE]
  /\ evadeTarget = Vec(0, 0, 0)
  /\ patrolling = FALSE
  /\ shotAt = [i \in 1..ALIEN_COUNT |-> -1]
  /\ force = Vec(0, 0, 0)
  /\ removed = <<>>

Init ==
  /\ Constructed
  /\ pidX = NewPID(PID.X.P, PID.X.I, PID.X.D)
  /\ uapPos = Vec(0, 10 * U, 0)
  /\ uapVelocity = Vec(0, 0, 0)
  /\ \E r \in Rosters : aliens = [i \in 1..ALIEN_COUNT |-> MakeAlien(i, r[i])]
  /\ lasers = <<>>
  /\ shields = SHIELD_MAX
  /\ survivalTime = 0
  /\ evadeCount = 0
  /\ autopilot = TRUE
  /\ gameStarted = FALSE
  /\ keys = {}
  /\ now \in StartTimes
  /\ time = 0
  /\ op = "init"
  /\ nextId = 0

---------------------------------------------------------------------------
(* The commands of the engine *)

physics == <<uapPos, uapVelocity, aliens, lasers, shields, boost, survivalTime,
             evadeCount, isBoosting, pidX, pidY, pidZ, out, call, evadeTarget,
             patrolling, shotAt, force,
             removed, nextId>>
clock == <<now, time, frame>>

\* start(isAutopilot)
start(isAutopilot) ==
  /\ autopilot' = isAutopilot
  /\ gameStarted' = TRUE
  /\ gamePaused' = FALSE
  /\ gameOver' = FALSE
  /\ op' = "start"
  /\ UNCHANGED <<physics, clock, keys>>

\* togglePause() without its first line
togglePauseUnguarded ==
  /\ gamePaused' = ~gamePaused
  /\ op' = "togglePause"
  /\ UNCHANGED <<physics, clock, keys, autopilot, gameStarted, gameOver>>

\* togglePause()
togglePause ==
  /\ gamePaused' = IF ~gameStarted \/ gameOver THEN gamePaused ELSE ~gamePaused
  /\ op' = "togglePause"
  /\ UNCHANGED <<physics, clock, keys, autopilot, gameStarted, gameOver>>

toggleAutopilotNoReset ==
  /\ autopilot' = ~autopilot
  /\ op' = "toggleAutopilot"
  /\ UNCHANGED <<physics, clock, keys, gameStarted, gamePaused, gameOver>>

\* toggleAutopilot()
toggleAutopilot ==
  /\ autopilot' = ~autopilot
  /\ pidX' = Reset(pidX)
  /\ pidY' = Reset(pidY)
  /\ pidZ' = Reset(pidZ)
  /\ op' = "toggleAutopilot"
  /\ UNCHANGED <<uapPos, uapVelocity, aliens, lasers, shields, boost, survivalTime,
                 evadeCount, isBoosting, out, call, evadeTarget, patrolling, shotAt,
                 force, removed, nextId,
                 clock, keys, gameStarted, gamePaused, gameOver>>

ResetWorldKeepsLasers(roll) ==
  /\ shields' = SHIELD_MAX
  /\ boost' = 100 * U
  /\ survivalTime' = 0
  /\ evadeCount' = 0
  /\ uapPos' = Vec(0, 10 * U, 0)
  /\ uapVelocity' = Vec(0, 0, 0)
  /\ aliens' = [i \in 1..Len(aliens) |->
                  [aliens[i] EXCEPT !.alive = TRUE, !.lastShot = roll[i]]]
  /\ pidX' = Reset(pidX)
  /\ pidY' = Reset(pidY)
  /\ pidZ' = Reset(pidZ)
  /\ gamePaused' = FALSE
  /\ gameOver' = FALSE
  /\ UNCHANGED <<lasers, isBoosting, clock, keys, autopilot, out, call, evadeTarget,
                 patrolling, shotAt, force,
                 removed, nextId>>

\* the fields restart() writes, but for gameStarted; roll[i] is Math.random() * 2000
\* for the i-th sentry
ResetWorld(roll) ==
  /\ shields' = SHIELD_MAX
  /\ boost' = 100 * U
  /\ survivalTime' = 0
  /\ evadeCount' = 0
  /\ uapPos' = Vec(0, 10 * U, 0)
  /\ uapVelocity' = Vec(0, 0, 0)
  /\ aliens' = [i \in 1..Len(aliens) |->
                  [aliens[i] EXCEPT !.alive = TRUE, !.lastShot = roll[i]]]
  /\ lasers' = <<>>
  /\ pidX' = Reset(pidX)
  /\ pidY' = Reset(pidY)
  /\ pidZ' = Reset(pidZ)
  /\ gamePaused' = FALSE
  /\ gameOver' = FALSE
  /\ UNCHANGED <<isBoosting, clock, keys, autopilot, out, call, evadeTarget, patrolling,
                 shotAt, force,
                 removed, nextId>>

\* restart()
restart(roll) ==
  /\ ResetWorld(roll)
  /\ gameStarted' = TRUE
  /\ op' = "restart"

\* quit(): restart(), then gameStarted = false
quit(roll) ==
  /\ ResetWorld(roll)
  /\ gameStarted' = FALSE
  /\ op' = "quit"

\* handleKeyDown(e)
handleKeyDown(k) ==
  /\ keys' = keys \cup {k}
  /\ op' = "keydown"
  /\ UNCHANGED <<physics, clock, autopilot, gameStarted, gamePaused, gameOver>>

\* handleKeyUp(e)
handleKeyUp(k) ==
  /\ keys' = keys \ {k}
  /\ op' = "keyup"
  /\ UNCHANGED <<physics, clock, autopilot, gameStarted, gamePaused, gameOver>>

\* animate() without the test of gameOver
animateThroughGameOver(delta) ==
  /\ frame' = frame + 1
  /\ now' = now + delta
  /\ time' = time + delta
  /\ IF gameStarted /\ ~gamePaused
     THEN Update(Min(delta, 100), time', now') /\ op' = "update"
     ELSE UNCHANGED <<physics, keys, autopilot, gameStarted, gamePaused, gameOver>>
            /\ op' = "animate"

\* animate() without the test of gamePaused
animateThroughPause(delta) ==
  /\ frame' = frame + 1
  /\ now' = now + delta
  /\ time' = time + delta
  /\ IF gameStarted /\ ~gameOver
     THEN Update(Min(delta, 100), time', now') /\ op' = "update"
     ELSE UNCHANGED <<physics, keys, autopilot, gameStarted, gamePaused, gameOver>>
            /\ op' = "animate"

\* animate(): one frame, delta ms after the one before
animate(delta) ==
  /\ frame' = frame + 1
  /\ now' = now + delta
  /\ time' = time + delta
  /\ IF gameStarted /\ ~gamePaused /\ ~gameOver
     THEN Update(Min(delta, 100), time', now') /\ op' = "update"
     ELSE UNCHANGED <<physics, keys, autopilot, gameStarted, gamePaused, gameOver>>
            /\ op' = "animate"

---------------------------------------------------------------------------
(* The events of the page: Menu and the key handler of Game *)

\* the start menu, shown while the game has not started
ClickStart == \E a \in BOOLEAN : ~gameStarted /\ start(a)

\* Escape, and RESUME of the pause menu
PressEscape == togglePause

\* Tab, handled while the game runs unpaused
PressTab == gameStarted /\ ~gamePaused /\ toggleAutopilot

\* RESTART and TRY AGAIN, of the pause menu and the game-over menu
ClickRestart == \E r \in Rolls : gameStarted /\ (gamePaused \/ gameOver) /\ restart(r)

\* QUIT, of the pause menu and the game-over menu
ClickQuit == \E r \in Rolls : gameStarted /\ (gamePaused \/ gameOver) /\ quit(r)

KeyDown == \E k \in Keys : k \notin keys /\ handleKeyDown(k)
KeyUp == \E k \in Keys : k \in keys /\ handleKeyUp(k)

\* requestAnimationFrame calls animate
Frame == \E delta \in Deltas : frame < MaxFrames /\ animate(delta)

Next ==
  \/ ClickStart
  \/ PressEscape
  \/ PressTab
  \/ ClickRestart
  \/ ClickQuit
  \/ KeyDown
  \/ KeyUp
  \/ Frame

Spec == Init /\ [][Next]_vars

\* ms between two animation frames when the clock may read the same time
\* twice: getDelta() is the difference of two readings of performance.now()
StallDeltas == {0, 100}

\* the position and the velocity of the craft are numbers
CraftFinite == VFinite(uapPos) /\ VFinite(uapVelocity)

\* requestAnimationFrame calls animate; the run is followed up to the frame
\* that leaves the craft without a position
StallFrame == \E delta \in StallDeltas : frame < MaxFrames /\ CraftFinite /\ animate(delta)

NextStall ==
  \/ ClickStart
  \/ PressEscape
  \/ PressTab
  \/ ClickRestart
  \/ ClickQuit
  \/ KeyDown
  \/ KeyUp
  \/ StallFrame

SpecStall == Init /\ [][NextStall]_vars

---------------------------------------------------------------------------
(* The game in progress: moments of play from which the combat continues *)

\* a laser after n frames of dt ms
RECURSIVE Flight(_, _, _)
Flight(l, n, dt) == IF n = 0 THEN l ELSE Flight(Advance(l, dt), n - 1, dt)

\* performance.now() at the moment of play
MidTime == 20000

\* the sentries of the first roster: the first two fired 350 ms ago, the third
\* 1950 ms and the fourth 1650 ms ago, the fifth is ready to fire
MidAliens ==
  [i \in 1..ALIEN_COUNT |->
     [MakeAlien(i, [radius |-> 25 * U, y |-> 3 * U, lastShot |-> 0,
                    shotInterval |-> ALIEN_FIRE_RATE_MIN])
        EXCEPT !.lastShot = IF i <= 2 THEN MidTime - 350
                            ELSE IF i = 3 THEN MidTime - 1950
                            ELSE IF i = 4 THEN MidTime - 1650 ELSE 0]]

\* the two lasers in flight for 350 ms (seven frames at 20 fps): one fired at the place
\* where the craft is now, one fired three units beside it
Volley ==
  <<Flight(CreateLaser(MidAliens[1].pos, Vec(0, 10 * U, 0), 2), 7, 50),
    Flight(CreateLaser(MidAliens[2].pos, Vec(3 * U, 10 * U, 0), 3), 7, 50)>>

\* the two lasers in flight for 350 ms, both fired at the place where the craft
\* is now
Salvo ==
  <<Flight(CreateLaser(MidAliens[1].pos, Vec(0, 10 * U, 0), 2), 7, 50),
    Flight(CreateLaser(MidAliens[2].pos, Vec(0, 10 * U, 0), 3), 7, 50)>>

\* the two lasers that missed the craft on its way to the corner: the third
\* sentry's, in flight for 1950 ms and three units short of LASER_MAX_DISTANCE,
\* and the fourth sentry's, fired downwards 1650 ms ago and just above the ground
Strays ==
  <<Flight(CreateLaser(MidAliens[3].pos, Vec(30 * U, 10 * U, -30 * U), 0), 39, 50),
    Flight(CreateLaser(MidAliens[4].pos, Vec(40 * U, 1 * U, -40 * U), 1), 33, 50)>>

\* the craft hovering under fire, with full and with nearly spent shields; the
\* craft flying into the low corner of the arena, past two lasers that missed
\* it; the craft beside the fifth sentry; the craft with nearly spent shields
\* and two lasers closing in
Moments ==
  {[pos |-> Vec(0, 10 * U, 0), vel |-> Vec(0, 0, 0), lasers |-> Volley, shields |-> SHIELD_MAX],
   [pos |-> Vec(0, 10 * U, 0), vel |-> Vec(0, 0, 0), lasers |-> Volley, shields |-> 10 * U],
   [pos |-> Vec(5950, 120, -5950), vel |-> Vec(20 * U, -5 * U, -20 * U),
    lasers |-> Strays, shields |-> SHIELD_MAX],
   [pos |-> Vec(MidAliens[5].pos.x, MidAliens[5].pos.y + U, MidAliens[5].pos.z + U),
    vel |-> Vec(0, 0, 0), lasers |-> <<>>, shields |-> SHIELD_MAX],
   [pos |-> Vec(0, 10 * U, 0), vel |-> Vec(0, 0, 0), lasers |-> Salvo, shields |-> 10 * U]}

\* a moment of play, just after the operator pressed Tab
InitMid ==
  /\ Constructed
  /\ pidX = NewPID(PID.X.P, PID.X.I, PID.X.D)
  /\ \E m \in Moments :
       /\ uapPos = m.pos
       /\ uapVelocity = m.vel
       /\ lasers = m.lasers
       /\ shields = m.shields
  /\ aliens = MidAliens
  /\ survivalTime = 3000
  /\ evadeCount = 2
  /\ autopilot \in BOOLEAN
  /\ gameStarted = TRUE
  /\ keys = {}
  /\ now = MidTime
  /\ time = MidTime
  /\ op = "toggleAutopilot"
  /\ nextId = 4

SpecMid == InitMid /\ [][Next]_vars

\* The methods of the engine called in any order, whatever the menus show
CallStart == \E a \in BOOLEAN : start(a)
CallTogglePause == togglePause
CallToggleAutopilot == toggleAutopilot
CallRestart == \E r \in Rolls : restart(r)
CallQuit == \E r \in Rolls : quit(r)

NextCalls ==
  \/ CallStart
  \/ CallTogglePause
  \/ CallToggleAutopilot
  \/ CallRestart
  \/ CallQuit
  \/ Frame

SpecCalls == InitMid /\ [][NextCalls]_vars

---------------------------------------------------------------------------
(* One laser fired at the hovering craft from 20 units, at a steady frame rate *)

\* frames of one run
ShotFrames == 34

\* ms between two frames: 100, 62.5, 60, 50, 40, 20 and 10 fps
ShotDeltas == {10, 16, 17, 20, 25, 50, 100}

InitShot ==
  /\ Constructed
  /\ pidX = NewPID(PID.X.P, PID.X.I, PID.X.D)
  /\ uapPos = Vec(0, 10 * U, 0)
  /\ uapVelocity = Vec(0, 0, 0)
  /\ lasers = <<CreateLaser(Vec(0, 10 * U, 20 * U), Vec(0, 10 * U, 0), 0)>>
  /\ shields = SHIELD_MAX
  /\ aliens = [i \in 1..ALIEN_COUNT |-> [MidAliens[i] EXCEPT !.lastShot = MidTime]]
  /\ survivalTime = 0
  /\ evadeCount = 0
  /\ autopilot \in BOOLEAN
  /\ gameStarted = TRUE
  /\ keys = {}
  /\ now = MidTime
  /\ time = 0
  /\ op = "start"
  /\ nextId = 1

\* a frame of a run whose frames are all delta ms apart
ShotFrame ==
  \E delta \in ShotDeltas : frame < ShotFrames /\ time = frame * delta /\ animate(delta)

SpecShot == InitShot /\ [][ShotFrame]_vars

\* frames of one run that is followed until the laser is gone
LiveFrames == 45

\* ms between two frames of such a run
LiveDeltas == {50, 100}

\* a frame of a run whose frames are all delta ms apart
LiveFrame ==
  \E delta \in LiveDeltas : frame < LiveFrames /\ time = frame * delta /\ animate(delta)

\* the frame counter of a LiveFrame step: a frame of the run is due
NextFrame ==
  /\ frame < LiveFrames
  /\ \E delta \in LiveDeltas : time = frame * delta
  /\ frame' = frame + 1

\* animate() asks for the next frame before it does anything else, so the
\* frames keep coming while the page is open: a frame that is due is taken.
\* Every step of the run is a LiveFrame step, which is due exactly when
\* NextFrame is and counts the frame as NextFrame does.
SpecLive == InitShot /\ [][LiveFrame]_vars /\ WF_frame(NextFrame)

---------------------------------------------------------------------------
(* One PIDController, called from outside the engine *)

\* calls of calculate() in one run
MaxCalls == 2

\* the gains of the X and Y controllers of the engine, and large, zero and negative ones
Gains == {[kp |-> PID.X.P, ki |-> PID.X.I, kd |-> PID.X.D],
          [kp |-> PID.Y.P, ki |-> PID.Y.I, kd |-> PID.Y.D],
          [kp |-> 100 * G, ki |-> 100 * G, kd |-> 100 * G],
          [kp |-> -10 * G, ki |-> 0, kd |-> -5 * G]}
Caps == {80 * U, 5 * U}
Integrals == {-15 * U, 0, 7 * U}
Errors == {-50 * U, 0, 1 * U, 200 * U}
Steps == {16, 100}

\* a controller that has run: its memory is that of calls with the error e
\* that left the integral at i
Used(g, cap, i, e) ==
  [NewPID(g.kp, g.ki, g.kd) EXCEPT !.maxOutput = cap, !.integral = i, !.prevError = e,
                                   !.lastP = Quot(g.kp * e, G), !.lastI = Quot(g.ki * i, G)]

InitPID ==
  /\ Constructed
  /\ \E g \in Gains, cap \in Caps, i \in Integrals, e \in Errors : pidX = Used(g, cap, i, e)
  /\ uapPos = Vec(0, 10 * U, 0)
  /\ uapVelocity = Vec(0, 0, 0)
  /\ aliens = <<>>
  /\ lasers = <<>>
  /\ shields = SHIELD_MAX
  /\ survivalTime = 0
  /\ evadeCount = 0
  /\ autopilot = TRUE
  /\ gameStarted = FALSE
  /\ keys = {}
  /\ now = 0
  /\ time = 0
  /\ op = "init"
  /\ nextId = 0

world == <<uapPos, uapVelocity, aliens, lasers, shields, boost, survivalTime,
           evadeCount, isBoosting, autopilot, gameStarted, gamePaused, gameOver,
           keys, pidY, pidZ, now, time, evadeTarget, patrolling, shotAt, force, removed, nextId>>

\* pidX.calculate(error, dt)
PidCalculate ==
  \E error \in Errors, dt \in Steps :
    /\ frame < MaxCalls
    /\ pidX' = Calculate(pidX, error, dt).pid
    /\ out' = Calculate(pidX, error, dt).out
    /\ call' = [error |-> error, dt |-> dt, fresh |-> op = "reset"]
    /\ op' = "calculate"
    /\ frame' = frame + 1
    /\ UNCHANGED world

\* pidX.reset()
PidReset ==
  /\ pidX' = Reset(pidX)
  /\ op' = "reset"
  /\ UNCHANGED <<world, out, call, frame>>

NextPID == PidCalculate \/ PidReset

SpecPID == InitPID /\ [][NextPID]_vars

---------------------------------------------------------------------------
(* Properties *)

\* the memory of a controller is clear
Zeroed(c) == c.integral = 0 /\ c.prevError = 0

\* the entries of a removal log that are collisions
Hits(log) == {k \in 1..Len(log) : log[k].cause = "hit"}

\* shields s after n collisions
RECURSIVE Damaged(_, _)
Damaged(s, n) == IF n = 0 THEN s ELSE Damaged(Max(0, s - LASER_DAMAGE), n - 1)

\* every laser that is live or that the last update() removed
Seen == {lasers[i] : i \in 1..Len(lasers)} \cup {removed[k].laser : k \in 1..Len(removed)}

\* a / b rounded up, for positive a and b
Ceil(a, b) == (a + b - 1) \div b

\* C1: the value calculate(e, dt) returns lies in [-maxOutput, maxOutput], for
\* every error, every dt > 0, every gain and every memory of the controller
C1_OutputWithinCap ==
  op = "calculate" => out >= -pidX.maxOutput /\ out <= pidX.maxOutput

\* C1, witness: a call whose three terms add up to more than maxOutput
\* returned maxOutput
C1_CapReached ==
  /\ op = "calculate"
  /\ pidX.lastP + pidX.lastI + pidX.lastD > pidX.maxOutput
  /\ out = pidX.maxOutput

\* C2: after every update() the craft is inside WORLD_BOUNDS on all three axes
C2_CraftInBounds ==
  op = "update" =>
    /\ uapPos.y >= WORLD_BOUNDS.y.min /\ uapPos.y <= WORLD_BOUNDS.y.max
    /\ uapPos.x >= -WORLD_BOUNDS.x /\ uapPos.x <= WORLD_BOUNDS.x
    /\ uapPos.z >= -WORLD_BOUNDS.z /\ uapPos.z <= WORLD_BOUNDS.z

\* C2, witness: an update() that stopped the craft, still moving outward, at
\* the floor and at two walls
C2_StoppedAtFloorAndWalls ==
  /\ op = "update"
  /\ uapPos = Vec(WORLD_BOUNDS.x, WORLD_BOUNDS.y.min, -WORLD_BOUNDS.z)
  /\ uapVelocity.x > 0 /\ uapVelocity.z < 0

\* C3: shields stay within [0, SHIELD_MAX] in every state
C3_ShieldsInRange == shields >= 0 /\ shields <= SHIELD_MAX

\* C3, witness: a collision that took shields of less than LASER_DAMAGE left
\* them at 0 and ended the game
C3_ShieldsSpent ==
  /\ op = "update"
  /\ shields = 0
  /\ gameOver
  /\ \E k \in Hits(removed) : removed[k].shields = 0

\* C4: restart() leaves full shields, no evades, no survival time, no live
\* laser, the craft at rest at (0, 10, 0), the three controllers' memory clear,
\* and the game neither over nor paused
C4_RestartResets ==
  op = "restart" =>
    /\ shields = SHIELD_MAX
    /\ evadeCount = 0
    /\ survivalTime = 0
    /\ lasers = <<>>
    /\ uapPos = Vec(0, 10 * U, 0)
    /\ uapVelocity = Vec(0, 0, 0)
    /\ Zeroed(pidX) /\ Zeroed(pidY) /\ Zeroed(pidZ)
    /\ ~gameOver /\ ~gamePaused

\* C4, witness: restart() after an update() in which a laser hit the craft
C4_RestartAfterDamage ==
  /\ op = "restart"
  /\ Hits(removed) # {}
  /\ shields = SHIELD_MAX
  /\ lasers = <<>>

\* C5: the target calculateEvadeTarget() returns has |x| <= 0.7 * WORLD_BOUNDS.x,
\* |z| <= 0.7 * WORLD_BOUNDS.z and y in [5, 25], the patrol branch included
C5_TargetInSoftBounds ==
  (op = "update" /\ autopilot) =>
    /\ Abs(evadeTarget.x) <= Quot(WORLD_BOUNDS.x * 7, 10)
    /\ Abs(evadeTarget.z) <= Quot(WORLD_BOUNDS.z * 7, 10)
    /\ evadeTarget.y >= 5 * U /\ evadeTarget.y <= 25 * U

\* C6, as stated: calculate(e, dt) right after reset() has a derivative term of
\* 0 and an integral term of ki * e * dt
C6_FirstCallAsStated ==
  (op = "calculate" /\ call.fresh) =>
    /\ pidX.lastD = 0
    /\ pidX.lastI = Quot(pidX.ki * Quot(call.error * call.dt, K), G)

\* C6, amended: calculate(e, dt) right after reset() has the derivative term
\* kd * e / dt, the error measured against a previous error of 0, and the
\* integral term ki * clamp(e * dt, -15, 15)
C6_FirstCallAmended ==
  (op = "calculate" /\ call.fresh) =>
    /\ pidX.lastD = Quot(pidX.kd * Quot(call.error * K, call.dt), G)
    /\ pidX.lastI = Quot(pidX.ki * Max(-15 * U, Min(15 * U, Quot(call.error * call.dt, K))), G)

\* C6, witness: a call right after reset() whose error left a derivative term
\* other than 0 and an integral held at 15
C6_FirstCallWithError ==
  /\ op = "calculate" /\ call.fresh
  /\ pidX.lastD # 0
  /\ pidX.kd # 0
  /\ Quot(call.error * call.dt, K) > 15 * U
  /\ pidX.integral = 15 * U

\* C7: at every steady step size dt the laser fired from 20 units at the
\* hovering craft has hit it after ceil(20 / 60 / dt) steps and shields read 82
C7_HitOnSchedule ==
  \A d \in ShotDeltas :
    (~autopilot /\ frame = Ceil(20 * K, LASER_SPEED * d) /\ time = frame * d) =>
      /\ \A i \in 1..Len(lasers) : lasers[i].id # 0
      /\ shields = SHIELD_MAX - LASER_DAMAGE

\* C8: a laser seen in the near-miss band, on however many steps, has raised
\* evadeCount exactly once, and a laser never seen there has not raised it
C8_CreditedOnce ==
  \A l \in Seen : l.credits = IF l.band >= 1 THEN 1 ELSE 0

\* C8, witness: a live laser seen in the near-miss band on two steps or more
\* and credited once
C8_TwoStepsInBand ==
  \E i \in 1..Len(lasers) : lasers[i].band >= 2 /\ lasers[i].credits = 1

\* C9: in every update() each laser within the hit radius after its advance is
\* removed in that step, each collision takes LASER_DAMAGE from the shields,
\* floored at 0, and no laser the step removed as a hit is still live
C9_OneCollisionPerLaser ==
  [][op' = "update" =>
       /\ \A i \in 1..Len(lasers') : VDistance(lasers'[i].pos, uapPos') >= HitRadius
       /\ \A k \in Hits(removed') :
            /\ \A i \in 1..Len(lasers') : lasers'[i].id # removed'[k].laser.id
            /\ \A j \in Hits(removed') : removed'[j].laser.id = removed'[k].laser.id => j = k
       /\ shields' = Damaged(Regenerate(shields, survivalTime' - survivalTime),
                             Cardinality(Hits(removed')))]_vars

\* C9, witness: a laser within the hit radius after its first advance was
\* removed as a hit, and the shields lost LASER_DAMAGE
C9_HitOnFirstAdvance ==
  /\ op = "update"
  /\ \E k \in Hits(removed) :
       /\ removed[k].laser.id = nextId - 1
       /\ removed[k].laser.distance <= Quot(LASER_SPEED * U, 10)
       /\ removed[k].shields = SHIELD_MAX - LASER_DAMAGE
  /\ shields = SHIELD_MAX - LASER_DAMAGE

EndGameCalls == {k \in Hits(removed) : removed[k].shields <= 0}

\* C11: game over is signalled once: no update() calls endGame() more than
\* once, also when several lasers hit the craft in the step that spends the
\* shields
C11_EndGameOnce ==
  op = "update" => Cardinality(EndGameCalls) <= 1

\* C12: once the game is over no step changes the shields, the position or the
\* velocity of the craft until restart() runs, called by the menu or by quit():
\* the frames that follow run no update()
C12_FrozenAfterGameOver ==
  [][(gameOver /\ op' \notin {"restart", "quit"}) =>
       /\ shields' = shields
       /\ uapPos' = uapPos
       /\ uapVelocity' = uapVelocity]_vars

\* C12 witness: a frame has passed after the game ended with the shields spent
\* and the craft in flight
C12_FrameAfterGameOver ==
  /\ gameOver
  /\ op = "animate"
  /\ shields = 0
  /\ uapVelocity # Vec(0, 0, 0)

\* the lastShot of every sentry
LastShots == [i \in DOMAIN aliens |-> aliens[i].lastShot]

\* C13: while the game is paused a frame changes none of survivalTime, shields,
\* boost, evadeCount, the position and velocity of the craft, the lasers and
\* the lastShot of the sentries
C13_FrozenWhilePaused ==
  [][(gamePaused /\ frame' # frame) =>
       /\ UNCHANGED <<survivalTime, shields, boost, evadeCount>>
       /\ UNCHANGED <<uapPos, uapVelocity, lasers>>
       /\ LastShots' = LastShots]_vars

\* C13 witness: a frame has passed while the game is paused with lasers in
\* flight, after a frame that moved the craft
C13_FrameWhilePaused ==
  /\ gamePaused
  /\ op = "animate"
  /\ lasers # <<>>
  /\ frame = 2

\* C14: no frame gives calculate() a dt of 0 or less, and after every step the
\* output of the controller and the position and velocity of the craft are
\* finite numbers
C14_StepsStayFinite ==
  (op = "update" /\ autopilot) =>
    /\ call.dt > 0
    /\ IsFinite(out) /\ IsFinite(pidX.lastD)
    /\ CraftFinite

\* C15: every call of calculate() leaves the integral within [-15, 15]; a call
\* with a positive error and a positive dt never lowers the integral, and raises
\* it as long as it is below 15, so that repeated calls bring it to 15
C15_IntegralClimbsToBound ==
  [][/\ pidX'.integral >= -15 * U
     /\ pidX'.integral <= 15 * U
     /\ (op' = "calculate" /\ call'.error > 0 /\ call'.dt > 0) =>
          /\ pidX'.integral >= pidX.integral
          /\ pidX.integral < 15 * U => pidX'.integral > pidX.integral]_vars

\* C15 witness: two calls in a row with the same positive error have brought
\* the integral to 15
C15_IntegralAtBound ==
  /\ op = "calculate"
  /\ frame = 2
  /\ call.error > 0
  /\ pidX.kd # 0 /\ pidX.lastD = 0
  /\ pidX.integral = 15 * U

\* the sentries whose lastShot the step has changed
Shooters == {i \in DOMAIN aliens : aliens'[i].lastShot # aliens[i].lastShot}

\* the sentry is alive, nearer to the moved craft than ALIEN_RANGE, and its
\* last shot is more than shotInterval before the step's performance.now()
MayFire(i) ==
  /\ aliens[i].alive
  /\ VDistance(aliens'[i].pos, uapPos') < ALIEN_RANGE
  /\ now' - aliens[i].lastShot > aliens[i].shotInterval

\* C16: in a step of update() a sentry fires only if it is alive, in range and
\* its interval has passed; a sentry that fires sets lastShot to now and adds
\* exactly one laser; the lastShot of the others is unchanged and no other
\* laser is created
C16_FiresWhenDue ==
  [][op' = "update" =>
       /\ \A i \in DOMAIN aliens :
            /\ i \in Shooters <=> MayFire(i)
            /\ i \in Shooters => aliens'[i].lastShot = now'
       /\ nextId' - nextId = Cardinality(Shooters)
       /\ Len(lasers') + Len(removed') = Len(lasers) + Cardinality(Shooters)]_vars

\* C16 witness: a step in which the fifth sentry has fired its laser, now in its
\* first step of flight, and the first, whose interval has not passed, has not
C16_OneFiredOneWaited ==
  /\ op = "update"
  /\ frame = 1
  /\ aliens[5].lastShot = now
  /\ aliens[1].lastShot < now - 300
  /\ \E k \in 1..Len(lasers) : lasers[k].id = nextId - 1 /\ lasers[k].distance <= 6 * U

\* C17: calculateEvadeTarget() takes the branch of the patrol movement exactly
\* when the length of the accumulated threat vector, before it is scaled by 2,
\* is below 1
C17_PatrolBelowOne ==
  [][(op' = "update" /\ autopilot) =>
       (patrolling' <=> VLength(Accumulated(uapPos, lasers, aliens)) < 1 * U)]_vars

\* C18: after a step under manual control with no ascend and no descend key
\* held, the vertical force is UAP_GRAVITY + UAP_HOVER_FORCE, and that force is
\* upward (positive)
C18_HoverBiasUpward ==
  (op = "update" /\ ~autopilot /\ keys \cap {"Space", "ShiftLeft", "ShiftRight"} = {}) =>
    /\ force.y = UAP_GRAVITY + UAP_HOVER_FORCE
    /\ force.y > 0

\* the ids of the lasers in flight and of the lasers the last update() removed
LiveIds == {lasers[k].id : k \in 1..Len(lasers)}
RemovedIds == {removed[k].laser.id : k \in 1..Len(removed)}

\* the laser has flown further than LASER_MAX_DISTANCE or is below the ground
Old(l) == l.distance > LASER_MAX_DISTANCE \/ l.pos.y < 0

\* the laser as one iteration of the loop moves it in the step that is taken
Moved(l) == Advance(l, Min(time' - time, 100))

\* C19: in a step of update() every laser in flight, those fired in the step
\* included, is moved once and is then either removed as a collision, removed as
\* old, or kept, and is only one of the three: a laser within 1.8 of the craft
\* is removed as a collision, with its near-miss mark untouched; a laser not
\* within 1.8 is removed exactly when its distance exceeds LASER_MAX_DISTANCE or
\* its y is below 0; no laser is removed twice, dropped or left unmoved
C19_OneFatePerLaser ==
  [][op' = "update" =>
       /\ Cardinality(LiveIds') = Len(lasers')
       /\ Cardinality(RemovedIds') = Len(removed')
       /\ LiveIds' \cap RemovedIds' = {}
       /\ LiveIds' \cup RemovedIds' = LiveIds \cup (nextId .. nextId' - 1)
       /\ \A k \in 1..Len(lasers) :
            /\ \A j \in 1..Len(lasers') :
                 lasers'[j].id = lasers[k].id =>
                   /\ lasers'[j].pos = Moved(lasers[k]).pos
                   /\ lasers'[j].distance = Moved(lasers[k]).distance
            /\ \A j \in 1..Len(removed') :
                 removed'[j].laser.id = lasers[k].id =>
                   /\ removed'[j].laser.pos = Moved(lasers[k]).pos
                   /\ removed'[j].laser.distance = Moved(lasers[k]).distance
                   /\ removed'[j].cause = "hit" =>
                        removed'[j].laser.counted = lasers[k].counted
       /\ \A j \in 1..Len(removed') :
            LET l == removed'[j].laser
            IN /\ removed'[j].cause = "hit" <=> VDistance(l.pos, uapPos') < HitRadius
               /\ removed'[j].cause = "expired" <=>
                    (VDistance(l.pos, uapPos') >= HitRadius /\ Old(l))
       /\ \A j \in 1..Len(lasers') :
            /\ VDistance(lasers'[j].pos, uapPos') >= HitRadius
            /\ ~Old(lasers'[j])]_vars

\* C19 witness: a step that removed one laser, below the ground but not yet
\* at LASER_MAX_DISTANCE, and kept the laser before it in the list
C19_OneExpiredOneKept ==
  /\ op = "update"
  /\ Len(removed) = 1
  /\ removed[1].cause = "expired"
  /\ removed[1].laser.pos.y < 0
  /\ removed[1].laser.distance <= LASER_MAX_DISTANCE
  /\ Len(lasers) = 1
  /\ lasers[1].id < removed[1].laser.id

\* the laser with this id is in flight
InFlight(id) == \E k \in 1..Len(lasers) : lasers[k].id = id

\* C20: while frames keep coming with dt > 0, the laser in flight at the start
\* is removed after finitely many steps; at the end of every step no laser in
\* flight has travelled further than LASER_MAX_DISTANCE, and every step moves
\* each laser it keeps further along
C20_LasersLeave ==
  /\ [](\A k \in 1..Len(lasers) : lasers[k].distance <= LASER_MAX_DISTANCE)
  /\ [][op' = "update" =>
          \A k \in 1..Len(lasers) : \A j \in 1..Len(lasers') :
            lasers'[j].id = lasers[k].id => lasers'[j].distance > lasers[k].distance]_vars
  /\ (InFlight(0) ~> ~InFlight(0))

\* C20 witness: the laser has passed the craft under autopilot and the step has
\* removed it beyond LASER_MAX_DISTANCE
C20_FirstLaserExpired ==
  /\ op = "update"
  /\ autopilot
  /\ \E j \in 1..Len(removed) :
       /\ removed[j].laser.id = 0
       /\ removed[j].cause = "expired"
       /\ removed[j].laser.distance > LASER_MAX_DISTANCE
  /\ ~InFlight(0)

\* C21: whatever the order of start, togglePause, toggleAutopilot, restart, quit
\* and frames, a paused game is started and not over; togglePause() called
\* before the game has started or after it is over changes nothing of the engine
C21_PausedOnlyInPlay ==
  /\ [](gamePaused => gameStarted /\ ~gameOver)
  /\ [][(op' = "togglePause" /\ (~gameStarted \/ gameOver)) =>
          UNCHANGED <<physics, clock, keys, autopilot, gameStarted, gamePaused,
                      gameOver>>]_vars

\* C21 witness: togglePause() has been called after a collision ended the game
C21_PauseAfterGameOver ==
  /\ op = "togglePause"
  /\ gameOver
  /\ gameStarted
  /\ shields = 0

\* C22: a sentry that fires in a step of update() fires more than its
\* shotInterval ms of performance.now() after its shot before, also when
\* restart() or quit() was called between the two shots
C22_ShotsApart ==
  [][op' = "update" =>
       \A i \in DOMAIN aliens :
         (shotAt'[i] # shotAt[i] /\ shotAt[i] >= 0) =>
           shotAt'[i] - shotAt[i] > aliens[i].shotInterval]_vars

=============================================================================
